---- MODULE Spec2Model ----
(***************************************************************************)
(* A model of one Parchemin Scroll (src/parchemin.js): the hidden <select> *)
(* and its options, the rendered rows, the button, the search bar with its *)
(* status line, the AJAX configuration, the debounce timers and the        *)
(* requests in flight.                                                     *)
(*                                                                         *)
(* Text is a sequence of chunks.  Labels, option values and typed values   *)
(* are sequences of one-character strings, so that toLowerCase, trim,      *)
(* includes, split and substring are computed character by character.  A   *)
(* message of the lang table is one opaque chunk (no operation of the      *)
(* program looks inside a message), and so are the decimal rendering of a  *)
(* number and the constant "parchemin" prefix of a row id.                 *)
(*                                                                         *)
(* Reach of the model: labels and values hold no HTML markup characters    *)
(* (the rows are built through innerHTML), option values are unique within *)
(* the widget, and addSearch is called at most once on the widget.         *)
(*                                                                         *)
(* The page holds three <select> elements, of which the first carries the  *)
(* parchemin class; the registry calls take any of the three as their node *)
(* and the state is that of the Scroll built for the first.                *)
(***************************************************************************)
EXTENDS Integers, Sequences, FiniteSets, TLC

VARIABLES
    multiple,       \* this.multiple (= this.node.multiple)
    options,        \* this.node.options: sequence of [value, text, selected]
    rows,           \* the <li> of .parcheminList: [id, text, shown, checked, listeners]
    button,         \* textContent of .parcheminButton
    search,         \* this.search (the search bar and status line exist)
    placeholder,    \* placeholder of .parcheminSearch
    barValue,       \* value of .parcheminSearch
    status,         \* textContent of .parcheminStatus
    ajax,           \* this.ajax: FalseAjax or the processed params
    lang,           \* this.lang
    ajaxListeners,  \* number of input listeners registered by addAjax
    pendingTimers,  \* how many of them have their debounce timeout pending
    newest,         \* the most recently issued fetch while it is in flight:
                    \* <<>> or <<[search, atIssue]>>, search the value it sent and
                    \* atIssue (history) the option set when it was issued
    older,          \* number of fetches in flight issued before that one
    latestN,        \* history, kept while older fetches are in flight: the outcome
                    \* of the most recently issued fetch (its number of raw
                    \* records, -1 for a failure); -2 otherwise
    callsSinceInput,\* history: fetches issued since the last input event
    lastSetLang,    \* history: <<[keys, reverted]>> right after a setLang call, the
                    \* keys it named and the number of other keys whose message it
                    \* changed; <<>> after any other handler
    sinceFailure    \* history: a catch handler has run and only input events
                    \* have been handled since

vars == <<multiple, options, rows, button, search, placeholder, barValue, status,
          ajax, lang, ajaxListeners, pendingTimers, newest, older, latestN,
          callsSinceInput, lastSetLang, sinceFailure>>

-----------------------------------------------------------------------------
(* Bounds of the model *)

\* fetches in flight at the same time
MaxInflight == 2
\* input listeners registered by addAjax (one per call that finds a search bar)
MaxAjaxListeners == 2
\* raw records in a response payload
MaxRecords == 2

-----------------------------------------------------------------------------
(* Strings *)

Min(a, b) == IF a < b THEN a ELSE b

\* String.prototype.toLowerCase over the alphabet of the model
LowerChar(c) ==
    CASE c = "A" -> "a"
      [] c = "B" -> "b"
      [] c = "C" -> "c"
      [] OTHER -> c

RECURSIVE toLowerCase(_)
toLowerCase(s) ==
    IF s = <<>> THEN <<>> ELSE <<LowerChar(Head(s))>> \o toLowerCase(Tail(s))

IsWhite(c) == c = " "

RECURSIVE trimStart(_)
trimStart(s) ==
    IF s = <<>> THEN <<>>
    ELSE IF IsWhite(Head(s)) THEN trimStart(Tail(s)) ELSE s

RECURSIVE trimEnd(_)
trimEnd(s) ==
    IF s = <<>> THEN <<>>
    ELSE IF IsWhite(s[Len(s)]) THEN trimEnd(SubSeq(s, 1, Len(s) - 1)) ELSE s

\* String.prototype.trim
trim(s) == trimEnd(trimStart(s))

\* String.prototype.includes
includes(t, v) ==
    \E i \in 0..(Len(t) - Len(v)) : SubSeq(t, i + 1, i + Len(v)) = v

\* String.prototype.split(sep) for a one-character separator
RECURSIVE splitFrom(_, _, _)
splitFrom(s, sep, cur) ==
    IF s = <<>> THEN <<cur>>
    ELSE IF Head(s) = sep THEN <<cur>> \o splitFrom(Tail(s), sep, <<>>)
    ELSE splitFrom(Tail(s), sep, Append(cur, Head(s)))

split(s, sep) == splitFrom(s, sep, <<>>)

\* the decimal rendering of a number, kept as one chunk
NumStr(n) == <<ToString(n)>>

\* Array.prototype.slice(from, to) with 0 <= from
slice(arr, from, to) == SubSeq(arr, from + 1, Min(to, Len(arr)))

-----------------------------------------------------------------------------
(* Objects *)

\* {...defaults, ...params}
Spread(defaults, params) ==
    [k \in (DOMAIN defaults) \cup (DOMAIN params) |->
        IF k \in DOMAIN params THEN params[k] ELSE defaults[k]]

getValueFromObject(obj, val, def) ==
    IF val \in DOMAIN obj THEN obj[val] ELSE def

EmptyObject == [k \in {} |-> <<>>]

\* the lang table built by the Parchemin constructor
ParcheminLang ==
    [empty             |-> <<"Selectionnez une valeur">>,
     startSearch       |-> <<"Commencez a taper pour lancer la recherche...">>,
     minLengthAlert    |-> <<"Veuillez taper au moins 4 caracteres.">>,
     searching         |-> <<"Recherche...">>,
     noResults         |-> <<"Aucun resultat trouve.">>,
     error             |-> <<"Une erreur est survenue.">>,
     result            |-> <<"resultat trouve.">>,
     results           |-> <<"resultats trouves.">>,
     searchPlaceholder |-> <<"Rechercher un evenement OL...">>,
     moreResults       |-> <<"en tout, affinez votre recherche">>]

LangKeys == DOMAIN ParcheminLang

\* the defaults literal of processLangParams
LangDefaults ==
    [empty             |-> <<"Selectionnez une valeur">>,
     startSearch       |-> <<"Commencez a taper pour lancer la recherche...">>,
     minLengthAlert    |-> <<"Veuillez taper au moins 4 caracteres.">>,
     searching         |-> <<"Recherche...">>,
     noResults         |-> <<"Aucun resultat trouve.">>,
     error             |-> <<"Une erreur est survenue.">>,
     result            |-> <<"resultat trouve.">>,
     results           |-> <<"resultats trouves.">>,
     searchPlaceholder |-> <<"Rechercher un evenement OL...">>,
     moreResults       |-> <<"en tout, affinez votre recherche">>]

processLangParamsOntoCurrent(params) == Spread(lang, params)

processLangParams(params) == Spread(LangDefaults, params)

\* the defaults literal of processAjaxParams
AjaxDefaults == [minLength |-> 4, maxResults |-> 300]

processAjaxParams(params) == Spread(AjaxDefaults, params)

\* this.ajax = false
FalseAjax == [k \in {} |-> 0]

\* if(this.ajax)
Truthy(a) == a # FalseAjax

-----------------------------------------------------------------------------
(* Inputs *)

Opt(v, t, sel) == [value |-> v, text |-> t, selected |-> sel]

\* the <option> lists a page may declare inside the <select>
DeclaredOptions ==
    { <<>>,
      << Opt(<<"1">>, <<"A", "b">>, FALSE), Opt(<<"x", "-", "y">>, <<" ", "b">>, FALSE) >>,
      << Opt(<<"1">>, <<"a", "b", "C">>, TRUE), Opt(<<"2">>, <<"b">>, FALSE) >> }

\* what the user may leave in the search bar
TypedValues ==
    { <<>>,
      <<" ", "A", "b", " ">>,
      <<"a", "b", "c", "d">>,
      <<"a", "b", "c", "d", "e">> }

\* the raw records a server may answer with; the sender answers with a prefix
AllRecords ==
    << [id |-> <<"7">>, name |-> <<"c">>],
       [name |-> <<"d">>],
       [id |-> <<"8", "-", "9">>, name |-> <<"e">>],
       [id |-> <<"5">>, name |-> <<"f">>] >>

Payloads == { SubSeq(AllRecords, 1, n) : n \in 0..MaxRecords }

\* network failure, JSON.parse failure, failure inside processData
FailureKinds == {"network", "parse", "process"}

\* the params objects a page may pass to addAjax (request and processData left out)
AjaxParams ==
    { EmptyObject, [minLength |-> 2, maxResults |-> 1], [minLength |-> 5] }

\* the params objects a page may pass to setLang
LangParams ==
    { EmptyObject,
      [empty |-> <<"Pick a value">>, error |-> <<"Oops">>] }

\* the <select> elements of the page: the value of their id property ('' without
\* an id attribute) and whether they carry the parchemin class
Page ==
    << [id |-> <<>>, parchemin |-> TRUE],
       [id |-> <<>>, parchemin |-> FALSE],
       [id |-> <<"t">>, parchemin |-> FALSE] >>

Nodes == 1..Len(Page)

\* a caller-supplied processData: one option object per raw record, text from
\* name and value from id when the record has one
RECURSIVE processData(_)
processData(data) ==
    IF data = <<>> THEN <<>>
    ELSE LET it == Head(data)
             o  == IF "id" \in DOMAIN it
                   THEN [text |-> it.name, value |-> it.id]
                   ELSE [text |-> it.name]
         IN <<o>> \o processData(Tail(data))

-----------------------------------------------------------------------------
(* The <select> and the rendered list *)

\* Scroll.increaseCount() of the first Scroll built
ScrollId == 1

\* 'parchemin-' + this.id + '-' + value
RowId(value) == <<"parchemin", "-">> \o NumStr(ScrollId) \o <<"-">> \o value

NewRow(value, text) ==
    [id |-> RowId(value), text |-> text, shown |-> TRUE, checked |-> FALSE,
     listeners |-> 0]

\* the browser's selectedness setting of a <select> without the multiple
\* attribute: when no option is selected the first one is
Selectedness(mult, opts) ==
    IF mult \/ opts = <<>> \/ (\E i \in 1..Len(opts) : opts[i].selected)
    THEN opts
    ELSE [i \in 1..Len(opts) |-> [opts[i] EXCEPT !.selected = (i = 1)]]

RECURSIVE getOptionsAsHTML(_)
getOptionsAsHTML(opts) ==
    IF opts = <<>> THEN <<>>
    ELSE <<NewRow(Head(opts).value, Head(opts).text)>> \o getOptionsAsHTML(Tail(opts))

\* li.addEventListener('click', ...) on every row of the list
addChoicesListeners(rs) ==
    [i \in 1..Len(rs) |-> [rs[i] EXCEPT !.listeners = @ + 1]]

\* both DOM sequences, passed through the option-management methods
Dom(opts, rs) == [options |-> opts, rows |-> rs]

wipeOptionsKeepsRows(d) == Dom(<<>>, d.rows)

wipeOptions(d) == Dom(<<>>, <<>>)

\* the String a DOM attribute or text node stores for the default of getValueFromObject
DefaultValue == <<"-", "1">>
DefaultText == <<"E", "r", "r", "o", "r">>

RECURSIVE addOptionsLoop(_, _, _)
addOptionsLoop(mult, d, arr) ==
    IF arr = <<>> THEN d
    ELSE LET opt    == Head(arr)
             newOpt == Opt(getValueFromObject(opt, "value", DefaultValue),
                           getValueFromObject(opt, "text", DefaultText),
                           FALSE)
             d2     == Dom(Selectedness(mult, Append(d.options, newOpt)),
                           Append(d.rows, NewRow(newOpt.value, newOpt.text)))
         IN addOptionsLoop(mult, d2, Tail(arr))

addOptions(mult, d, arr) ==
    LET d2 == addOptionsLoop(mult, d, arr)
    IN Dom(d2.options, addChoicesListeners(d2.rows))

\* Array.from(this.node.options).filter(x => x.selected)
RECURSIVE JoinSelected(_)
JoinSelected(opts) ==
    IF opts = <<>> THEN <<>>
    ELSE (IF Head(opts).selected THEN Head(opts).text \o <<",", " ">> ELSE <<>>)
         \o JoinSelected(Tail(opts))

drawSelectedOptions(opts, lng) ==
    IF \A i \in 1..Len(opts) : ~opts[i].selected
    THEN lng.empty
    ELSE LET str == JoinSelected(opts) IN SubSeq(str, 1, Len(str) - 2)

-----------------------------------------------------------------------------
(* Handlers *)

\* the option set (values and labels) of the <select>
OptionSet(opts) == [i \in 1..Len(opts) |-> [value |-> opts[i].value, text |-> opts[i].text]]

\* Array.prototype.find over the options: the index of the first match, 0 for undefined
FindByValue(opts, value) ==
    IF \E j \in 1..Len(opts) : opts[j].value = value
    THEN CHOOSE j \in 1..Len(opts) :
            /\ opts[j].value = value
            /\ \A k \in 1..(j - 1) : opts[k].value # value
    ELSE 0

\* the widget parts a click listener touches
Ui(opts, rs, btn) == [options |-> opts, rows |-> rs, button |-> btn]

\* one run of the click listener of row i; a TypeError on an undefined choice
\* ends the listener before it has written anything
clickListener(mult, lng, u, i) ==
    LET value  == split(u.rows[i].id, "-")[3]
        choice == FindByValue(u.options, value)
    IN IF choice = 0 THEN u
       ELSE IF mult
       THEN LET opts2 == [u.options EXCEPT ![choice].selected = ~@]
            IN Ui(opts2,
                  [u.rows EXCEPT ![i].checked = opts2[choice].selected],
                  drawSelectedOptions(opts2, lng))
       ELSE Ui([j \in 1..Len(u.options) |-> [u.options[j] EXCEPT !.selected = (j = choice)]],
               u.rows,
               u.options[choice].text)

\* the click event runs every listener registered on the row
RECURSIVE dispatchClick(_, _, _, _, _)
dispatchClick(mult, lng, u, i, k) ==
    IF k = 0 THEN u ELSE dispatchClick(mult, lng, clickListener(mult, lng, u, i), i, k - 1)

\* the local branch of the search listener
filterRowsCaseSensitive(rs, val) ==
    [i \in 1..Len(rs) |->
        [rs[i] EXCEPT !.shown = includes(trim(rs[i].text), val)]]

filterRows(rs, val) ==
    [i \in 1..Len(rs) |->
        [rs[i] EXCEPT !.shown = includes(trim(toLowerCase(rs[i].text)), val)]]

\* the threshold the search listener compares the typed length with
SearchListenerThreshold == 4

\* the input listener of addSearchListeners: [options, rows, status]
searchListenerWipesAlways(a, lng, d, st, typed) ==
    LET w == wipeOptions(d)
    IN [options |-> w.options, rows |-> w.rows, status |-> st]

searchListener(a, lng, d, st, typed) ==
    LET val == trim(toLowerCase(typed))
    IN IF Truthy(a)
       THEN IF Len(val) < SearchListenerThreshold
            THEN LET w == wipeOptions(d)
                 IN [options |-> w.options, rows |-> w.rows, status |-> lng.minLengthAlert]
            ELSE [options |-> d.options, rows |-> d.rows, status |-> lng.searching]
       ELSE [options |-> d.options, rows |-> filterRows(d.rows, val), status |-> st]

\* the number of raw records fetchData hands to processData at most
SliceLimit == 300

\* the status line replaceChoices writes
resultStatusPluralOnly(a, lng, data, totalLength) ==
    IF Len(data) = 0 THEN lng.noResults
    ELSE NumStr(Len(data)) \o <<" ">> \o lng.results

resultStatus(a, lng, data, totalLength) ==
    IF Len(data) = 0 THEN lng.noResults
    ELSE IF Len(data) = 1 THEN NumStr(Len(data)) \o <<" ">> \o lng.result
    ELSE NumStr(Len(data)) \o <<" ">> \o lng.results
         \o (IF totalLength > a.maxResults
             THEN <<" ", "(">> \o NumStr(totalLength) \o <<" ">> \o lng.moreResults \o <<")">>
             ELSE <<>>)

\* replaceChoices: [options, rows, status]
replaceChoicesAppends(mult, a, lng, d, data, totalLength) ==
    LET d2 == addOptions(mult, d, data)
    IN [options |-> d2.options, rows |-> d2.rows,
        status |-> resultStatus(a, lng, data, totalLength)]

replaceChoices(mult, a, lng, d, data, totalLength) ==
    LET d2 == addOptions(mult, wipeOptions(d), data)
    IN [options |-> d2.options, rows |-> d2.rows,
        status |-> resultStatus(a, lng, data, totalLength)]

\* the catch handler of fetchData: [options, rows, status]
catchHandlerWipes(lng, d) ==
    [options |-> <<>>, rows |-> <<>>, status |-> lng.error]

catchHandler(lng, d) ==
    [options |-> d.options, rows |-> d.rows, status |-> lng.error]

-----------------------------------------------------------------------------
(* The state machine *)

\* new Scroll(node): the constructor and init()
Init ==
    /\ multiple \in BOOLEAN
    /\ \E declared \in DeclaredOptions :
          /\ options = Selectedness(multiple, declared)
          /\ rows = addChoicesListeners(getOptionsAsHTML(declared))
    /\ lang = ParcheminLang
    /\ button = ParcheminLang.empty
    /\ search = FALSE
    /\ placeholder = <<>>
    /\ barValue = <<>>
    /\ status = <<>>
    /\ ajax = FalseAjax
    /\ ajaxListeners = 0
    /\ pendingTimers = 0
    /\ newest = <<>>
    /\ older = 0
    /\ latestN = -2
    /\ callsSinceInput = 0
    /\ lastSetLang = <<>>
    /\ sinceFailure = FALSE

\* Scroll.addSearch (through Parchemin.addSearch)
AddSearch ==
    /\ ~search
    /\ search' = TRUE
    /\ placeholder' = lang.searchPlaceholder
    /\ status' = lang.startSearch
    /\ barValue' = <<>>
    /\ lastSetLang' = <<>>
    /\ sinceFailure' = FALSE
    /\ UNCHANGED <<multiple, options, rows, button, ajax, lang, ajaxListeners,
                   pendingTimers, newest, older, latestN, callsSinceInput>>

\* Scroll.addAjax (through Parchemin.addAjax); without a search bar the method
\* throws on searchBar.addEventListener, after this.ajax was assigned
AddAjax(params) ==
    /\ ajaxListeners < MaxAjaxListeners
    /\ ajax' = processAjaxParams(params)
    /\ ajaxListeners' = IF search THEN ajaxListeners + 1 ELSE ajaxListeners
    /\ lastSetLang' = <<>>
    /\ sinceFailure' = FALSE
    /\ UNCHANGED <<multiple, options, rows, button, search, placeholder, barValue,
                   status, lang, pendingTimers, newest, older, latestN,
                   callsSinceInput>>

\* Scroll.setLang (through Parchemin.setLang)
SetLang(params) ==
    /\ lang' = processLangParams(params)
    /\ button' = lang'.empty
    /\ placeholder' = IF search THEN lang'.searchPlaceholder ELSE placeholder
    /\ status' = IF search THEN lang'.startSearch ELSE status
    /\ lastSetLang' =
          <<[keys |-> DOMAIN params,
             reverted |-> Cardinality({k \in LangKeys \ DOMAIN params :
                                          lang'[k] # lang[k]})]>>
    /\ sinceFailure' = FALSE
    /\ UNCHANGED <<multiple, options, rows, search, barValue, ajax, ajaxListeners,
                   pendingTimers, newest, older, latestN, callsSinceInput>>

\* an input event on the search bar: the listener of addSearchListeners, then
\* the listener of every addAjax (clearTimeout, setTimeout)
InputEvent(typed) ==
    /\ search
    /\ barValue' = typed
    /\ LET r == searchListener(ajax, lang, Dom(options, rows), status, typed)
       IN /\ options' = r.options
          /\ rows' = r.rows
          /\ status' = r.status
    /\ pendingTimers' = ajaxListeners
    /\ callsSinceInput' = 0
    /\ lastSetLang' = <<>>
    /\ sinceFailure' = sinceFailure
    /\ UNCHANGED <<multiple, button, search, placeholder, ajax, lang, ajaxListeners,
                   newest, older, latestN>>

\* fetchData(params, inputData): one more fetch in flight, the most recent one
fetchDataNotAfterFailure(inputData) ==
    IF sinceFailure
    THEN UNCHANGED <<newest, older, latestN, callsSinceInput>>
    ELSE /\ Len(newest) + older < MaxInflight
         /\ newest' = <<[search |-> inputData, atIssue |-> OptionSet(options)]>>
         /\ older' = older + Len(newest)
         /\ latestN' = -2
         /\ callsSinceInput' = callsSinceInput + 1

fetchData(inputData) ==
    /\ Len(newest) + older < MaxInflight
    /\ newest' = <<[search |-> inputData, atIssue |-> OptionSet(options)]>>
    /\ older' = older + Len(newest)
    /\ latestN' = -2
    /\ callsSinceInput' = callsSinceInput + 1

\* the debounce timeout of one addAjax listener elapses
TimerFire ==
    /\ pendingTimers > 0
    /\ pendingTimers' = pendingTimers - 1
    /\ LET val == trim(toLowerCase(barValue))
       IN IF Len(val) >= ajax.minLength
          THEN fetchData(val)
          ELSE UNCHANGED <<newest, older, latestN, callsSinceInput>>
    /\ lastSetLang' = <<>>
    /\ sinceFailure' = FALSE
    /\ UNCHANGED <<multiple, options, rows, button, search, placeholder, barValue,
                   status, ajax, lang, ajaxListeners>>

\* a fetch in flight settles with outcome n: the most recently issued one
\* (isNewest) or an older one
Settles(isNewest, n) ==
    /\ IF isNewest THEN newest # <<>> ELSE older > 0
    /\ newest' = IF isNewest THEN <<>> ELSE newest
    /\ older' = IF isNewest THEN older ELSE older - 1
    /\ latestN' = IF Len(newest') + older' = 0 THEN -2
                  ELSE IF isNewest THEN n ELSE latestN

\* the response arrived and parsed: the second then handler of fetchData
ThenHandler(isNewest, parsed) ==
    /\ Settles(isNewest, Len(parsed))
    /\ LET processed == processData(slice(parsed, 0, SliceLimit))
           c == replaceChoices(multiple, ajax, lang, Dom(options, rows), processed,
                               Len(parsed))
       IN /\ options' = c.options
          /\ rows' = c.rows
          /\ status' = c.status
    /\ lastSetLang' = <<>>
    /\ sinceFailure' = FALSE
    /\ UNCHANGED <<multiple, button, search, placeholder, barValue, ajax, lang,
                   ajaxListeners, pendingTimers, callsSinceInput>>

\* the fetch failed: the catch handler of fetchData
CatchHandler(isNewest, kind) ==
    /\ Settles(isNewest, -1)
    /\ kind \in FailureKinds
    /\ LET c == catchHandler(lang, Dom(options, rows))
       IN /\ options' = c.options
          /\ rows' = c.rows
          /\ status' = c.status
    /\ lastSetLang' = <<>>
    /\ sinceFailure' = TRUE
    /\ UNCHANGED <<multiple, button, search, placeholder, barValue, ajax, lang,
                   ajaxListeners, pendingTimers, callsSinceInput>>

\* the user clicks the visible row i
ActivateRow(i) ==
    /\ i \in 1..Len(rows)
    /\ rows[i].shown
    /\ LET u == dispatchClick(multiple, lang, Ui(options, rows, button), i,
                              rows[i].listeners)
       IN /\ options' = u.options
          /\ rows' = u.rows
          /\ button' = u.button
    /\ lastSetLang' = <<>>
    /\ sinceFailure' = FALSE
    /\ UNCHANGED <<multiple, search, placeholder, barValue, status, ajax, lang,
                   ajaxListeners, pendingTimers, newest, older, latestN,
                   callsSinceInput>>

\* Parchemin.init: this.scrolls, each Scroll named by the node it is bound to;
\* the model follows the state of the first one
scrolls == SelectSeq([n \in Nodes |-> n], LAMBDA n : Page[n].parchemin)

\* Parchemin.getScrollFromNode: Array.prototype.find, 0 for undefined
getScrollFromNode(node) ==
    IF \E j \in 1..Len(scrolls) : Page[scrolls[j]].id = Page[node].id
    THEN CHOOSE j \in 1..Len(scrolls) :
            /\ Page[scrolls[j]].id = Page[node].id
            /\ \A k \in 1..(j - 1) : Page[scrolls[k]].id # Page[node].id
    ELSE 0

\* Parchemin.addSearch(node)
ParcheminAddSearch(node) ==
    IF getScrollFromNode(node) # 0 THEN AddSearch ELSE UNCHANGED vars

\* Parchemin.addAjax(node, params)
ParcheminAddAjax(node, params) ==
    IF getScrollFromNode(node) # 0 THEN AddAjax(params) ELSE UNCHANGED vars

\* Parchemin.setLang(node, params)
ParcheminSetLang(node, params) ==
    IF getScrollFromNode(node) # 0 THEN SetLang(params) ELSE UNCHANGED vars

Next ==
    \/ \E node \in Nodes : ParcheminAddSearch(node)
    \/ \E node \in Nodes, params \in AjaxParams : ParcheminAddAjax(node, params)
    \/ \E node \in Nodes, params \in LangParams : ParcheminSetLang(node, params)
    \/ \E typed \in TypedValues : InputEvent(typed)
    \/ TimerFire
    \/ \E isNewest \in BOOLEAN, parsed \in Payloads : ThenHandler(isNewest, parsed)
    \/ \E isNewest \in BOOLEAN, kind \in FailureKinds : CatchHandler(isNewest, kind)
    \/ \E i \in 1..Len(rows) : ActivateRow(i)

Spec == Init /\ [][Next]_vars

-----------------------------------------------------------------------------
(* Properties *)

Norm(typed) == trim(toLowerCase(typed))

\* the step in which a debounce timeout issues a fetch
FetchStep == TimerFire /\ callsSinceInput' = callsSinceInput + 1

\* C1: in every reachable state the native option list and the rendered rows
\* hold the same options, in the same order, with the same cardinality: row i
\* carries the id built from the value of option i and shows its label.
C1_OptionsMatchRows ==
    /\ Len(rows) = Len(options)
    /\ \A i \in 1..Len(rows) :
          /\ rows[i].id = <<"parchemin", "-", "1", "-">> \o options[i].value
          /\ rows[i].text = options[i].text

\* a remote response has replaced the declared options by two new ones
C1_Witness ==
    /\ Len(options) = 2
    /\ options[1].value = <<"7">>
    /\ Len(rows) = 2

\* C2 (as claimed): with remote search on, an input event whose lower-cased
\* trimmed value is shorter than the configured minLength leaves the option set
\* empty, and no fetch is issued for a value shorter than minLength.
C2_ShortQueryEmptiesOptions ==
    [][/\ \A typed \in TypedValues :
              (InputEvent(typed) /\ Truthy(ajax) /\ Len(Norm(typed)) < ajax.minLength)
                  => (options' = <<>> /\ rows' = <<>>)
       /\ FetchStep => Len(newest'[1].search) >= ajax.minLength]_vars

\* C3 (as claimed): the input events since the last pause lead to at most one
\* fetch, and that fetch sends the value the search bar holds when it is issued.
C3_OneCallPerBurst ==
    [][FetchStep => (callsSinceInput = 0 /\ newest'[1].search = Norm(barValue))]_vars

\* C4 (as claimed), for a widget with one addAjax listener: when the last fetch
\* in flight settles and it is not the most recently issued one, its handler
\* writes the outcome that the most recently issued one wrote.
C4_LatestResponseWins ==
    [][(ajaxListeners = 1 /\ older' = 0 /\ newest' = <<>>)
          => /\ \A parsed \in Payloads :
                    ThenHandler(FALSE, parsed) => Len(parsed) = latestN
             /\ \A kind \in FailureKinds :
                    CatchHandler(FALSE, kind) => latestN = -1]_vars

\* C5 (as claimed): a successful response of N raw records leaves
\* min(N, maxResults) entries in the option set.
C5_TruncatedToMaxResults ==
    [][\A isNewest \in BOOLEAN : \A parsed \in Payloads :
          ThenHandler(isNewest, parsed)
              => Len(options') = Min(Len(parsed), ajax.maxResults)]_vars

\* C6: after a successful response replaced the option set, the status line is
\* the no-results message for an empty set, "1 <singular>" for one entry, and
\* "<count> <plural>" for more, followed by " (<total> <more-results>)" if and
\* only if the total of raw records exceeds the configured maxResults.
C6_StatusAfterReplacement ==
    [][\A isNewest \in BOOLEAN : \A parsed \in Payloads :
          ThenHandler(isNewest, parsed) =>
              LET n == Len(options')
                  total == Len(parsed)
                  qualifier == <<" ", "(", ToString(total), " ">>
                                   \o lang.moreResults \o <<")">>
              IN /\ (n = 0) => status' = lang.noResults
                 /\ (n = 1) => status' = <<"1", " ">> \o lang.result
                 /\ (n > 1 /\ total > ajax.maxResults)
                       => status' = <<ToString(n), " ">> \o lang.results \o qualifier
                 /\ (n > 1 /\ total <= ajax.maxResults)
                       => status' = <<ToString(n), " ">> \o lang.results]_vars

\* a response of more records than maxResults has left the plural form with the
\* qualifier on the status line
C6_Witness ==
    /\ Len(options) > 1
    /\ Truthy(ajax)
    /\ \E total \in 1..MaxRecords :
          /\ total > ajax.maxResults
          /\ status = <<ToString(Len(options)), " ">> \o lang.results
                          \o <<" ", "(", ToString(total), " ">>
                          \o lang.moreResults \o <<")">>

\* C7 (as claimed): the failure of the most recently issued fetch leaves the
\* option set as it was when that fetch was issued, and the status line is the
\* error message.
C7_AsBeforeIssue ==
    [][\A kind \in FailureKinds :
          CatchHandler(TRUE, kind)
              => (OptionSet(options') = newest[1].atIssue /\ status' = lang.error)]_vars

\* C7 (amended): the catch handler leaves the options and the rows exactly as
\* they were immediately before it ran, and sets the status line to the error
\* message.
C7_FailureKeepsOptions ==
    [][\A isNewest \in BOOLEAN : \A kind \in FailureKinds :
          CatchHandler(isNewest, kind)
              => (options' = options /\ rows' = rows /\ status' = lang.error)]_vars

\* a fetch has failed while the widget held options
C7_Witness ==
    /\ options # <<>>
    /\ Len(rows) = Len(options)
    /\ status = lang.error

\* C8: without remote search an input event changes neither the options nor
\* the set, order or number of rows; only the shown flag of a row may change.
C8_LocalFilterKeepsOptions ==
    [][((\E typed \in TypedValues : InputEvent(typed)) /\ ~Truthy(ajax))
          => /\ options' = options
             /\ Len(rows') = Len(rows)
             /\ \A i \in 1..Len(rows) :
                   [rows'[i] EXCEPT !.shown = TRUE] = [rows[i] EXCEPT !.shown = TRUE]]_vars

\* local filtering has hidden a row of a widget without remote search
C8_Witness ==
    /\ ~Truthy(ajax)
    /\ barValue # <<>>
    /\ options # <<>>
    /\ \E i \in 1..Len(rows) : ~rows[i].shown

\* the comma-joined labels of the selected options, or the empty message
RECURSIVE SelectedLabels(_)
SelectedLabels(opts) ==
    IF opts = <<>> THEN <<>>
    ELSE LET rest == SelectedLabels(Tail(opts))
         IN IF ~Head(opts).selected THEN rest
            ELSE IF rest = <<>> THEN Head(opts).text
            ELSE Head(opts).text \o <<",", " ">> \o rest

\* C9 (as claimed): in multiple mode the activation of row i flips the selected
\* flag of option i and of no other, and leaves on the button the comma-joined
\* labels of the selected options, or the empty message when none is selected.
C9_ToggleAndSummary ==
    [][\A i \in 1..Len(rows) :
          (multiple /\ ActivateRow(i))
              => /\ options' = [options EXCEPT ![i].selected = ~@]
                 /\ button' = IF SelectedLabels(options') = <<>>
                              THEN lang.empty
                              ELSE SelectedLabels(options')]_vars

\* C10 (as claimed): a setLang call leaves every key it does not name with the
\* message it had immediately before the call.
C10_UnnamedKeysKeepCurrent ==
    [][\A params \in LangParams :
          SetLang(params)
              => \A k \in LangKeys \ DOMAIN params : lang'[k] = lang[k]]_vars

\* C10 (amended): after a setLang call every key the call does not name holds
\* its default message, whatever earlier calls had set.
C10_UnnamedKeysTakeDefaults ==
    (lastSetLang # <<>>) =>
        \A k \in LangKeys \ lastSetLang[1].keys :
            lang[k] = [empty             |-> <<"Selectionnez une valeur">>,
                       startSearch       |-> <<"Commencez a taper pour lancer la recherche...">>,
                       minLengthAlert    |-> <<"Veuillez taper au moins 4 caracteres.">>,
                       searching         |-> <<"Recherche...">>,
                       noResults         |-> <<"Aucun resultat trouve.">>,
                       error             |-> <<"Une erreur est survenue.">>,
                       result            |-> <<"resultat trouve.">>,
                       results           |-> <<"resultats trouves.">>,
                       searchPlaceholder |-> <<"Rechercher un evenement OL...">>,
                       moreResults       |-> <<"en tout, affinez votre recherche">>][k]

\* a setLang call that left out a key an earlier call had overridden
C10_Witness ==
    /\ lastSetLang # <<>>
    /\ lastSetLang[1].reverted > 0
    /\ "empty" \notin lastSetLang[1].keys
    /\ lang.empty = <<"Selectionnez une valeur">>

\* C11 (as claimed): when at least one option is selected and the button shows
\* the selected labels, a setLang call leaves the button as it is.
C11_SetLangKeepsSummary ==
    [][\A params \in LangParams :
          (/\ SetLang(params)
           /\ \E i \in 1..Len(options) : options[i].selected
           /\ button = SelectedLabels(options))
              => button' = button]_vars

\* C12 (as claimed): addSearch, addAjax and setLang of the registry, called with a
\* <select> that was never registered, change nothing of the widget.
C12_UnregisteredIsNoOp ==
    [][\A node \in Nodes :
          (/\ ~Page[node].parchemin
           /\ \/ ParcheminAddSearch(node)
              \/ \E params \in AjaxParams : ParcheminAddAjax(node, params)
              \/ \E params \in LangParams : ParcheminSetLang(node, params))
              => UNCHANGED vars]_vars

\* C13 (as claimed): at most one debounce timeout of the widget is pending.
C13_OnePendingTimer == pendingTimers <= 1

\* C14 (as claimed): with remote search enabled, whenever the status line shows
\* the searching message, a debounce timeout is pending or the most recently
\* issued fetch is in flight and carries the value the search bar holds.
C14_SearchingMeansCallUnderway ==
    (search /\ Truthy(ajax) /\ ajaxListeners >= 1 /\ status = lang.searching)
        => \/ pendingTimers > 0
           \/ (newest # <<>> /\ newest[1].search = Norm(barValue))

\* C15 (as claimed): with remote search enabled, once a short input has emptied
\* the option set (the status line shows the minimum-length message), the
\* option set stays empty for as long as the search bar keeps that value.
C15_StaysEmptyBelowThreshold ==
    [][(/\ Truthy(ajax)
        /\ status = lang.minLengthAlert
        /\ options = <<>>
        /\ Len(Norm(barValue)) < ajax.minLength
        /\ barValue' = barValue)
          => options' = <<>>]_vars

\* C16 (as claimed): in single mode the activation of row i leaves option i as
\* the selected option of the <select> and its label on the button.
C16_RowSelectsItsOption ==
    [][\A i \in 1..Len(rows) :
          (~multiple /\ ActivateRow(i))
              => /\ \A j \in 1..Len(options') : options'[j].selected <=> (j = i)
                 /\ OptionSet(options') = OptionSet(options)
                 /\ button' = options[i].text]_vars

\* v occurs in t as a contiguous run of characters
IsSubstring(v, t) ==
    \E pre \in 0..Len(t) :
        /\ pre + Len(v) <= Len(t)
        /\ \A k \in 1..Len(v) : t[pre + k] = v[k]

\* C17: without remote search, after an input event the rows shown are exactly
\* those whose lower-cased trimmed label contains the lower-cased trimmed typed
\* value; filtering the resulting rows again with the same value changes
\* nothing, and an empty value shows every row.
C17_LocalFilterIsSubstringMatch ==
    [][\A typed \in TypedValues :
          (InputEvent(typed) /\ ~Truthy(ajax))
              => /\ \A i \in 1..Len(rows) :
                       rows'[i].shown <=> IsSubstring(Norm(typed), Norm(rows[i].text))
                 /\ filterRows(rows', Norm(typed)) = rows'
                 /\ (Norm(typed) = <<>>) => \A i \in 1..Len(rows') : rows'[i].shown]_vars

\* a mixed-case padded value has been typed without remote search: the row
\* whose label contains it is shown and another row is hidden
C17_Witness ==
    /\ ~Truthy(ajax)
    /\ barValue = <<" ", "A", "b", " ">>
    /\ \E i \in 1..Len(rows) : rows[i].shown /\ IsSubstring(<<"a", "b">>, Norm(rows[i].text))
    /\ \E i \in 1..Len(rows) : ~rows[i].shown

\* C18: a failure ends its own request only.  After a catch handler has run, the
\* search bar and the addAjax listeners are still in place; an input event
\* schedules the debounce timeout again; the timeout, when the value is long enough, issues
\* a fetch carrying that value; and a successful response replaces the option
\* set by one option per record and the error message on the status line.
C18_FailureIsNotTerminal ==
    [][/\ sinceFailure => (search /\ ajaxListeners >= 1)
       /\ \A typed \in TypedValues :
              (InputEvent(typed) /\ sinceFailure) => pendingTimers' >= 1
       /\ (TimerFire /\ sinceFailure /\ Len(Norm(barValue)) >= ajax.minLength)
              => /\ newest' # <<>>
                 /\ newest'[1].search = Norm(barValue)
                 /\ callsSinceInput' = callsSinceInput + 1
       /\ \A isNewest \in BOOLEAN : \A parsed \in Payloads :
              ThenHandler(isNewest, parsed)
                  => /\ Len(options') = Len(parsed)
                     /\ \A i \in 1..Len(parsed) : options'[i].text = parsed[i].name
                     /\ status' # lang.error]_vars

\* after a failure, a value long enough has been typed and its call is scheduled
C18_Witness ==
    /\ sinceFailure
    /\ status # lang.error
    /\ pendingTimers >= 1
    /\ Len(Norm(barValue)) >= ajax.minLength

\* the status line shows a result count of n, in the singular or plural form
StatusCounts(n) ==
    /\ Len(status) >= 3
    /\ SubSeq(status, 1, 2) = <<ToString(n), " ">>
    /\ SubSeq(status, 3, 3) \in {lang.result, lang.results}

\* C19: when the status line shows a result count of n the <select> holds n
\* options, and when it shows the no-results or the minimum-length message the
\* <select> holds none.
C19_StatusAgreesWithOptions ==
    /\ \A n \in 0..MaxRecords : StatusCounts(n) => Len(options) = n
    /\ (search /\ status \in {lang.noResults, lang.minLengthAlert}) => options = <<>>

\* a response of one record has left one option and the singular count
C19_Witness ==
    /\ StatusCounts(1)
    /\ status = <<"1", " ">> \o lang.result
    /\ Len(options) = 1

\* C20 (as claimed): in multiple mode the button shows the empty-selection message
\* or the comma-joined labels of options that the <select> holds and that are
\* selected.
C20_ButtonNamesSelectedOptions ==
    multiple =>
        \/ button = lang.empty
        \/ \E S \in SUBSET {i \in 1..Len(options) : options[i].selected} :
              /\ S # {}
              /\ button = SelectedLabels([i \in 1..Len(options) |->
                                             [options[i] EXCEPT !.selected = (i \in S)]])

\* every row of the list carries one click listener
OneHandlerPerRow == \A i \in 1..Len(rows) : rows[i].listeners = 1

\* C21 (as claimed): every row carries exactly one click listener, and one
\* activation of row i in multiple mode flips the selected flag of option i
\* once and that of no other option.
C21_OneHandlerOneFlip ==
    [][/\ OneHandlerPerRow
       /\ \A i \in 1..Len(rows) :
             (multiple /\ ActivateRow(i))
                 => /\ options'[i].selected = ~options[i].selected
                    /\ \A j \in 1..Len(options) :
                          (j # i) => options'[j].selected = options[j].selected]_vars

====
